---------------------------- MODULE Spec2Model ----------------------------
(***************************************************************************)
(* A model of the SSE client of the chat front end.                        *)
(*                                                                         *)
(*   streamQuery  (features/inspector/InspectorView.tsx) : fetch, the read *)
(*                loop, the buffer, message framing on "\n\n", the         *)
(*                "event: " / "data: " lines, JSON.parse, onEvent, abort.  *)
(*   App          (App.tsx) : handleSubmit, submitGeneral and the onEvent  *)
(*                callback it hands to streamQuery.                        *)
(*                                                                         *)
(* Text is a sequence of tokens.  A token is an indivisible piece of text: *)
(* the newline "\n", the blank " ", the two field prefixes "event: " and   *)
(* "data: ", and single characters.  A read chunk ends on a token boundary.*)
(* (TextDecoder with { stream: true } hands over whole characters, so a    *)
(* chunk of text never ends inside a character.)                           *)
(*                                                                         *)
(* Two specifications: Spec is one call of streamQuery on any body of the  *)
(* model, read in any chunking, with failures and cancellation; SpecApp is *)
(* App with its submissions, where each stream hands the callback any of   *)
(* the events streamQuery can produce.  Of App's state the model keeps     *)
(* what handleSubmit and the callback read and what the chat shows:        *)
(* inputValue, files, isLoading, messages and the closure of each call of  *)
(* submitGeneral.  The log, the toasts, the analytics calls, activeAgent   *)
(* and sqlSummary are written and never read by this code, and are left    *)
(* out; so is the catch around the call of streamQuery (App.tsx 480-484),  *)
(* which streamQuery, returning before its fetch settles, never reaches.   *)
(***************************************************************************)
EXTENDS Integers, Sequences, FiniteSets, TLC

\* ------------------------------------------------------------------ text

NL == "\n"
SP == " "
EVENT_PREFIX == "event: "
DATA_PREFIX == "data: "

\* The characters JSON.parse accepts in this model: decimal digits.
Digits == {"1", "2"}

\* Whitespace as String.prototype.trim sees it.
IsSpace(c) == c \in {NL, SP}

\* The lines a response body is made of in this model (each is followed by
\* one "\n"): a blank line, an event line with a trailing blank, and data
\* lines with valid JSON, invalid JSON and an empty payload.
Lines ==
  { << >>,
    <<EVENT_PREFIX, "a", SP>>,
    <<DATA_PREFIX, "1">>,
    <<DATA_PREFIX, "x">>,
    <<DATA_PREFIX>> }

\* Bound: the number of lines of a response body.
MaxLines == 4

RECURSIVE JoinLines(_)
JoinLines(ls) ==
  IF ls = << >> THEN << >> ELSE Head(ls) \o <<NL>> \o JoinLines(Tail(ls))

Bodies == { JoinLines(ls) : ls \in UNION { [1..n -> Lines] : n \in 0..MaxLines } }

\* ------------------------------------------------- string operations

\* s.startsWith(p) for a one-token prefix p.
StartsWith(s, p) == Len(s) >= 1 /\ s[1] = p

\* s.slice(n) where the first n characters of s are its first token.
SliceToken(s) == SubSeq(s, 2, Len(s))

RECURSIVE TrimStart(_)
TrimStart(s) ==
  IF s # << >> /\ IsSpace(Head(s)) THEN TrimStart(Tail(s)) ELSE s

RECURSIVE TrimEnd(_)
TrimEnd(s) ==
  IF s # << >> /\ IsSpace(s[Len(s)]) THEN TrimEnd(SubSeq(s, 1, Len(s) - 1)) ELSE s

\* String.prototype.trim
Trim(s) == TrimEnd(TrimStart(s))

\* The first index i with s[i..i+Len(sep)-1] = sep, or 0.
IndexOf(s, sep) ==
  LET hits == { i \in 1..(Len(s) - Len(sep) + 1) : SubSeq(s, i, i + Len(sep) - 1) = sep }
  IN IF hits = {} THEN 0 ELSE CHOOSE i \in hits : \A j \in hits : i <= j

\* String.prototype.split(sep) for a non-empty separator: the pieces between
\* the leftmost non-overlapping occurrences of sep; never empty.
RECURSIVE Split(_, _)
Split(s, sep) ==
  LET i == IndexOf(s, sep)
  IN IF i = 0 THEN <<s>>
     ELSE <<SubSeq(s, 1, i - 1)>> \o Split(SubSeq(s, i + Len(sep), Len(s)), sep)

Front(q) == SubSeq(q, 1, Len(q) - 1)
Last(q) == q[Len(q)]

\* ---------------------------------------------------------- JSON.parse

JSONValid(p) == p # << >> /\ \A i \in 1..Len(p) : p[i] \in Digits

DigitValue(c) == IF c = "1" THEN 1 ELSE 2

RECURSIVE JSONNumber(_)
JSONNumber(p) ==
  IF p = << >> THEN 0 ELSE 10 * JSONNumber(Front(p)) + DigitValue(Last(p))

\* JSON.parse(p) for a p it accepts: the number the digits denote.
JSONParse(p) == [num |-> JSONNumber(p)]


\* ------------------------------------------------------------ streamQuery

VARIABLES
  body,        \* the text the server writes to the response body
  pos,         \* how many tokens of body reader.read() has handed over
  buffer,      \* let buffer
  eventCount,  \* let eventCount
  events,      \* the calls of onEvent, in order
  origin,      \* for each call of onEvent, which message of the stream made it
  msgCount,    \* how many messages the loop has split off the buffer so far
  resumed,     \* a call was made for a message the buffer held from an earlier read
  fetched,     \* how fetch settled, and the response it gave
  pc,          \* "fetch": fetch pending; "read": in the read loop; then how it
               \* ended: "done", "failed" (an error was caught and reported),
               \* "cancelled" (an AbortError was caught)
  aborted      \* controller.signal.aborted

streamVars ==
  <<body, pos, buffer, eventCount, events, origin, msgCount, resumed, fetched, pc, aborted>>

\* The state of App (App.tsx).
VARIABLES
  inputValue,  \* useState('') : the text of the input box
  files,       \* useState([]) : the number of attached files
  isLoading,   \* useState(false)
  messages,    \* useState([]) : the chat messages
  subs,        \* one record per call of submitGeneral: its closure and stream
  now,         \* the last value Date.now() returned
  deliveries   \* how many times a stream has called its callback

appVars == <<inputValue, files, isLoading, messages, subs, now, deliveries>>

vars == <<streamVars, appVars>>

\* The errors the promise chain sees.
HttpError(status) == [name |-> "Error", message |-> <<"HTTP ", status>>]
NoBodyError == [name |-> "Error", message |-> <<"No response body">>]
NetworkError == [name |-> "TypeError", message |-> <<"Failed to fetch">>]
AbortError == [name |-> "AbortError", message |-> <<"The operation was aborted.">>]

\* response.status of the responses the server gives, as text.
Statuses == {"200", "404", "500"}
\* response.ok
Ok(status) == status = "200"

ErrorEvent(message) == [event |-> <<"error">>, data |-> [error |-> message]]

\* catch (e) of JSON.parse: the event reported for a payload that does not parse.
OnParseError == <<ErrorEvent(<<"Failed to parse SSE data">>)>>

\* The name an event has when its message has no "event: " line.
DefaultEvent == <<"message">>

\* A variant of ScanLines in which the first "event: " and the first "data: "
\* line win.
RECURSIVE ScanLinesFirstWins(_, _)
ScanLinesFirstWins(lines, acc) ==
  IF lines = << >> THEN acc
  ELSE LET line == Last(lines)
       IN ScanLinesFirstWins(Front(lines),
            IF StartsWith(line, EVENT_PREFIX)
              THEN [acc EXCEPT !.event = Trim(SliceToken(line))]
            ELSE IF StartsWith(line, DATA_PREFIX)
              THEN [acc EXCEPT !.data = Trim(SliceToken(line))]
            ELSE acc)

\* for (const line of lines): the last "event: " and the last "data: " line win.
RECURSIVE ScanLines(_, _)
ScanLines(lines, acc) ==
  IF lines = << >> THEN acc
  ELSE LET line == Head(lines)
       IN ScanLines(Tail(lines),
            IF StartsWith(line, EVENT_PREFIX)
              THEN [acc EXCEPT !.event = Trim(SliceToken(line))]
            ELSE IF StartsWith(line, DATA_PREFIX)
              THEN [acc EXCEPT !.data = Trim(SliceToken(line))]
            ELSE acc)

Fields(message) ==
  ScanLines(Split(message, <<NL>>), [event |-> DefaultEvent, data |-> << >>])

\* if (data) { try { JSON.parse; onEvent } catch { onEvent(error) } }
Dispatch(f) ==
  IF f.data = << >> THEN << >>
  ELSE IF JSONValid(f.data) THEN <<[event |-> f.event, data |-> JSONParse(f.data)]>>
  ELSE OnParseError

\* The body of the for loop over messages: the calls of onEvent one message makes.
ProcessMessage(message) ==
  IF Trim(message) = << >> THEN << >> ELSE Dispatch(Fields(message))

\* The number of successful JSON.parse calls among the calls a message makes.
Parsed(message) ==
  IF Trim(message) # << >> /\ JSONValid(Fields(message).data) THEN 1 ELSE 0

\* A variant of ForEachMessage that walks the messages from the last to the first.
RECURSIVE ForEachMessageReversed(_, _)
ForEachMessageReversed(msgs, i) ==
  IF i > Len(msgs) THEN << >>
  ELSE LET calls == ProcessMessage(msgs[i])
       IN ForEachMessageReversed(msgs, i + 1)
            \o [k \in 1..Len(calls) |-> [call |-> calls[k], msg |-> i]]

\* A variant of ForEachMessage that leaves the loop after a payload that does
\* not parse.
RECURSIVE ForEachMessageUntilFailure(_, _)
ForEachMessageUntilFailure(msgs, i) ==
  IF i > Len(msgs) THEN << >>
  ELSE LET calls == ProcessMessage(msgs[i])
       IN [k \in 1..Len(calls) |-> [call |-> calls[k], msg |-> i]]
            \o (IF calls = OnParseError THEN << >>
                ELSE ForEachMessageUntilFailure(msgs, i + 1))

\* for (const message of messages): the calls in loop order, each with the
\* index of its message.
RECURSIVE ForEachMessage(_, _)
ForEachMessage(msgs, i) ==
  IF i > Len(msgs) THEN << >>
  ELSE LET calls == ProcessMessage(msgs[i])
       IN [k \in 1..Len(calls) |-> [call |-> calls[k], msg |-> i]]
            \o ForEachMessage(msgs, i + 1)

\* A variant of Accumulate that overwrites the buffer: buffer = chunk.
AccumulateOverwrites(buf, chunk) == chunk

\* buffer += chunk
Accumulate(buf, chunk) == buf \o chunk

\* buffer.split('\n\n')
SplitMessages(buf) == Split(buf, <<NL, NL>>)

\* A variant of Remainder that clears the buffer: messages.pop(); buffer = ''.
RemainderDropped(msgs) == << >>

\* buffer = messages.pop() || ''
Remainder(msgs) == Last(msgs)

\* A variant of AtDone that reports the end of the stream to the callback.
AtDoneReports(buf) == <<[event |-> <<"done">>, data |-> [num |-> 0]]>>

\* A variant of AtDone that handles what is left in the buffer as a last message.
AtDoneFlushes(buf) == ProcessMessage(buf)

\* What the loop does when reader.read() reports done, given the buffer: break.
AtDone(buf) == << >>

\* A variant of InnerCatch that reports every error, an AbortError too.
InnerCatchReportsAll(error) == <<ErrorEvent(error.message)>>

\* catch (error) of the read loop.
InnerCatch(error) ==
  IF error.name # "AbortError" THEN <<ErrorEvent(error.message)>> ELSE << >>

\* .catch((error) => ...) of the fetch chain.
OuterCatch(error) ==
  IF error.name # "AbortError" THEN <<ErrorEvent(error.message)>> ELSE << >>

\* A variant of ResponseError that does not look at response.ok.
ResponseErrorBodyOnly(status, hasBody) ==
  IF ~hasBody THEN <<NoBodyError>> ELSE << >>

\* The checks on the response before the body is read.
ResponseError(status, hasBody) ==
  IF ~Ok(status) THEN <<HttpError(status)>>
  ELSE IF ~hasBody THEN <<NoBodyError>>
  ELSE << >>

\* fetch before it settles, a response, a rejection.
Pending == [settled |-> "pending", status |-> "", hasBody |-> FALSE, error |-> AbortError]
Response(status, hasBody) ==
  [settled |-> "resolved", status |-> status, hasBody |-> hasBody, error |-> AbortError]
Rejection(error) == [settled |-> "rejected", status |-> "", hasBody |-> FALSE, error |-> error]

\* How the promise chain ends after a catch that was handed error.
Caught(error) == IF error.name = "AbortError" THEN "cancelled" ELSE "failed"

\* The locals of the read loop before the first read.
LoopStart ==
  [buffer |-> << >>, eventCount |-> 0, events |-> << >>, origin |-> << >>,
   msgCount |-> 0, resumed |-> FALSE]

\* One turn of the while loop on a chunk that reader.read() handed over.
ReadStep(st, chunk) ==
  LET msgs == SplitMessages(Accumulate(st.buffer, chunk))
      complete == Front(msgs)
      calls == ForEachMessage(complete, 1)
  IN [buffer |-> Remainder(msgs),
      eventCount |-> st.eventCount + Len(SelectSeq(complete, LAMBDA m : Parsed(m) = 1)),
      events |-> st.events \o [k \in 1..Len(calls) |-> calls[k].call],
      origin |-> st.origin \o [k \in 1..Len(calls) |-> st.msgCount + calls[k].msg],
      msgCount |-> st.msgCount + Len(complete),
      resumed |-> st.resumed \/ (st.buffer # << >> /\ complete # << >>
                                   /\ ProcessMessage(complete[1]) # << >>)]

\* The read loop run on a list of chunks.
RECURSIVE RunChunks(_, _)
RunChunks(st, chunks) ==
  IF chunks = << >> THEN st ELSE RunChunks(ReadStep(st, Head(chunks)), Tail(chunks))

StreamInit ==
  /\ body \in Bodies
  /\ pos = 0
  /\ buffer = LoopStart.buffer
  /\ eventCount = LoopStart.eventCount
  /\ events = LoopStart.events
  /\ origin = LoopStart.origin
  /\ msgCount = LoopStart.msgCount
  /\ resumed = LoopStart.resumed
  /\ fetched = Pending
  /\ pc = "fetch"
  /\ aborted = FALSE

\* fetch(...) resolves with a response.
FetchResolve(status, hasBody) ==
  /\ pc = "fetch" /\ ~aborted
  /\ fetched' = Response(status, hasBody)
  /\ LET thrown == ResponseError(status, hasBody)
     IN IF thrown # << >>
          THEN /\ events' = events \o OuterCatch(thrown[1])
               /\ pc' = Caught(thrown[1])
          ELSE /\ events' = events
               /\ pc' = "read"
  /\ UNCHANGED <<body, pos, buffer, eventCount, origin, msgCount, resumed, aborted,
               appVars>>

\* fetch(...) rejects: the network failed.
FetchReject ==
  /\ pc = "fetch" /\ ~aborted
  /\ fetched' = Rejection(NetworkError)
  /\ events' = events \o OuterCatch(NetworkError)
  /\ pc' = Caught(NetworkError)
  /\ UNCHANGED <<body, pos, buffer, eventCount, origin, msgCount, resumed, aborted,
               appVars>>

\* fetch(...) rejects because the signal is aborted.
FetchAbort ==
  /\ pc = "fetch" /\ aborted
  /\ fetched' = Rejection(AbortError)
  /\ events' = events \o OuterCatch(AbortError)
  /\ pc' = Caught(AbortError)
  /\ UNCHANGED <<body, pos, buffer, eventCount, origin, msgCount, resumed, aborted,
               appVars>>

\* reader.read() hands over the next n tokens; one turn of the while loop.
Read(n) ==
  /\ pc = "read" /\ ~aborted
  /\ pos + n <= Len(body)
  /\ LET st == [buffer |-> buffer, eventCount |-> eventCount, events |-> events,
                origin |-> origin, msgCount |-> msgCount, resumed |-> resumed]
         nx == ReadStep(st, SubSeq(body, pos + 1, pos + n))
     IN /\ buffer' = nx.buffer
        /\ eventCount' = nx.eventCount
        /\ events' = nx.events
        /\ origin' = nx.origin
        /\ msgCount' = nx.msgCount
        /\ resumed' = nx.resumed
  /\ pos' = pos + n
  /\ UNCHANGED <<body, fetched, pc, aborted, appVars>>

\* reader.read() reports done: the server closed the body after pos tokens.
ReadDone ==
  /\ pc = "read" /\ ~aborted
  /\ events' = events \o AtDone(buffer)
  /\ pc' = "done"
  /\ UNCHANGED <<body, pos, buffer, eventCount, origin, msgCount, resumed, fetched, aborted,
               appVars>>

\* reader.read() rejects: the connection broke.
ReadFail ==
  /\ pc = "read" /\ ~aborted
  /\ events' = events \o InnerCatch(NetworkError)
  /\ pc' = Caught(NetworkError)
  /\ UNCHANGED <<body, pos, buffer, eventCount, origin, msgCount, resumed, fetched, aborted,
               appVars>>

\* reader.read() rejects because the signal is aborted.
ReadAbort ==
  /\ pc = "read" /\ aborted
  /\ events' = events \o InnerCatch(AbortError)
  /\ pc' = Caught(AbortError)
  /\ UNCHANGED <<body, pos, buffer, eventCount, origin, msgCount, resumed, fetched, aborted,
               appVars>>

\* The function streamQuery returns: controller.abort().
Cancel ==
  /\ ~aborted
  /\ aborted' = TRUE
  /\ UNCHANGED <<body, pos, buffer, eventCount, events, origin, msgCount, resumed, fetched, pc,
               appVars>>

StreamNext ==
  \/ \E status \in Statuses, hasBody \in BOOLEAN : FetchResolve(status, hasBody)
  \/ FetchReject
  \/ FetchAbort
  \/ \E n \in 1..(Len(body) - pos) : Read(n)
  \/ ReadDone
  \/ ReadFail
  \/ ReadAbort
  \/ Cancel

\* -------------------------------------------------------------------- App

\* Bounds of the App model: the submissions the user makes (the user leaves
\* the input alone after the last one), the calls of the callbacks, the
\* values of the clock and the files attached at once.
MaxSubmits == 2
MaxDeliveries == 3
MaxNow == 2
MaxFiles == 1

\* What the user types: nothing, a blank, a question.
Inputs == { << >>, <<SP>>, <<"q">> }

\* The Korean literals of App.tsx, named in ASCII: the default query text
\* (line 310), the text of a finished empty answer (line 440), the prefix of
\* an error message (line 473) and the attachment note (line 246).
DEFAULT_QUERY == <<"[default query: please analyse the evidence]">>
DONE_TEXT == <<"[completed]">>
ERROR_PREFIX == "[an error occurred]: "
UNKNOWN_ERROR == <<"Unknown Error">>

\* An optional value is << >> (null, undefined) or <<v>>.
None == << >>
Some(v) == <<v>>

\* queryResult of a message without one.
NoQueryResult == [present |-> FALSE, response |-> << >>, data |-> << >>, sql |-> None]

\* The data of the events a stream delivers: obj is typeof data === 'object'
\* && data !== null; the other fields are those the callback reads.
EventData(obj, text, response, sql, preview, error) ==
  [obj |-> obj, text |-> text, response |-> response, sql |-> sql,
   preview |-> preview, error |-> error]

Blank == EventData(TRUE, << >>, << >>, None, None, << >>)

\* The events the server and streamQuery hand to the callback.
AppEvents ==
  { [event |-> "start", data |-> Blank],
    [event |-> "thinking", data |-> [Blank EXCEPT !.text = <<"a">>]],
    [event |-> "thinking", data |-> [Blank EXCEPT !.text = <<"b">>]],
    [event |-> "thinking", data |-> Blank],
    [event |-> "sql", data |-> [Blank EXCEPT !.sql = Some("SELECT 1")]],
    [event |-> "sql", data |-> Blank],
    [event |-> "result", data |-> [Blank EXCEPT !.preview = Some(<<"row">>)]],
    [event |-> "response", data |-> [Blank EXCEPT !.response = <<"f">>]],
    [event |-> "response", data |-> Blank],
    [event |-> "done", data |-> Blank],
    [event |-> "error", data |-> Blank],
    [event |-> "error", data |-> [Blank EXCEPT !.error = <<"Failed to parse SSE data">>]] }

\* The events with which streamQuery itself ends a stream: a response that is
\* not ok, a fetch or a read that fails.
FatalEvents ==
  { [event |-> "error", data |-> [Blank EXCEPT !.error = <<"HTTP 500">>]],
    [event |-> "error", data |-> [Blank EXCEPT !.error = <<"Failed to fetch">>]] }

\* setMessages(prev => prev.map(m => m.id === assistantId ? f(m) : m))
MapMessages(ms, id, f(_)) ==
  [k \in 1..Len(ms) |-> IF ms[k].id = id THEN f(ms[k]) ELSE ms[k]]

\* { ...m, content, queryResult: { ...m.queryResult!, response } }
WithText(m, text) ==
  [m EXCEPT !.content = text,
            !.queryResult = [@ EXCEPT !.present = TRUE, !.response = text]]

\* a || b on strings
OrElse(a, b) == IF a # << >> THEN a ELSE b

\* A 'thinking' text that is put in front of the accumulated text.
AppendTextInFront(acc, text) == text \o acc

\* agentResponse += text
AppendText(acc, text) == acc \o text

\* A 'done' that shows the accumulated text even when there is none.
DoneTextAsIs(acc) == acc

\* agentResponse || DONE_TEXT
DoneText(acc) == OrElse(acc, DONE_TEXT)

\* const userMessage = { id: Date.now().toString(), content, sender: 'user' }
UserMessage(trimmed, nfiles, t) ==
  [id |-> t,
   content |-> trimmed \o (IF nfiles > 0 THEN <<"\n([attachments] ", ToString(nfiles), ")">> ELSE << >>),
   sender |-> "user",
   queryResult |-> NoQueryResult]

\* const assistantMessage = { id: (Date.now() + 1).toString(), content: '', ... }
AssistantMessage(t) ==
  [id |-> t + 1,
   content |-> << >>,
   sender |-> "assistant",
   queryResult |-> [present |-> TRUE, response |-> << >>, data |-> << >>, sql |-> None]]

\* The closure of one call of submitGeneral.
NewSub(trimmed, nfiles, t) ==
  [phase |-> IF nfiles > 0 THEN "upload" ELSE "stream",
   query |-> OrElse(trimmed, DEFAULT_QUERY),
   nfiles |-> nfiles,
   assistantId |-> IF nfiles > 0 THEN 0 ELSE t + 1,
   agentResponse |-> << >>,
   sqlQuery |-> None,
   queryResultData |-> << >>]

AppInit ==
  /\ inputValue = << >>
  /\ files = 0
  /\ isLoading = FALSE
  /\ messages = << >>
  /\ subs = << >>
  /\ now = 0
  /\ deliveries = 0

\* onChange={setInputValue}, handleQuickQuery
SetInputValue(v) ==
  /\ Len(subs) < MaxSubmits
  /\ inputValue # v
  /\ inputValue' = v
  /\ UNCHANGED <<files, isLoading, messages, subs, now, deliveries, streamVars>>

\* onFilesChange={setFiles}
SetFiles(n) ==
  /\ Len(subs) < MaxSubmits
  /\ files # n
  /\ files' = n
  /\ UNCHANGED <<inputValue, isLoading, messages, subs, now, deliveries, streamVars>>

\* What Date.now() may return: the clock never runs backwards.
Times == { t \in 1..MaxNow : t >= now }

\* A guard that forgets the busy flag.
RejectedWhenEmptyOnly(trimmed, nfiles, loading) == trimmed = << >> /\ nfiles = 0

\* The guard of handleSubmit (and of submitGeneral, which repeats its first half).
Rejected(trimmed, nfiles, loading) == (trimmed = << >> /\ nfiles = 0) \/ loading

\* handleSubmit, and submitGeneral up to its first await: the user message, the
\* busy flag, and without files also the placeholder and the call of streamQuery.
HandleSubmit(t) ==
  /\ Len(subs) < MaxSubmits
  /\ LET trimmed == Trim(inputValue)
     IN /\ ~Rejected(trimmed, files, isLoading)
        /\ messages' = IF files > 0
                         THEN Append(messages, UserMessage(trimmed, files, t))
                         ELSE messages \o <<UserMessage(trimmed, files, t), AssistantMessage(t)>>
        /\ subs' = Append(subs, NewSub(trimmed, files, t))
  /\ inputValue' = << >>
  /\ files' = 0
  /\ isLoading' = TRUE
  /\ now' = t
  /\ UNCHANGED <<deliveries, streamVars>>

\* handleSubmit when its guard rejects the submission: return.
HandleSubmitIgnored ==
  /\ Rejected(Trim(inputValue), files, isLoading)
  /\ UNCHANGED vars

\* await Promise.all(uploadPromises) resolves: the placeholder, then streamQuery.
UploadDone(i, t) ==
  /\ subs[i].phase = "upload"
  /\ messages' = Append(messages, AssistantMessage(t))
  /\ subs' = [subs EXCEPT ![i].phase = "stream", ![i].assistantId = t + 1]
  /\ now' = t
  /\ UNCHANGED <<inputValue, files, isLoading, deliveries, streamVars>>

\* A failed upload after which submitGeneral goes on to the placeholder and the stream.
UploadFailGoesOn(i) ==
  /\ subs[i].phase = "upload"
  /\ messages' = Append(messages, AssistantMessage(now))
  /\ subs' = [subs EXCEPT ![i].phase = "stream", ![i].assistantId = now + 1]
  /\ UNCHANGED <<inputValue, files, isLoading, now, deliveries, streamVars>>

\* await Promise.all(uploadPromises) rejects: catch, setIsLoading(false), return.
UploadFail(i) ==
  /\ subs[i].phase = "upload"
  /\ isLoading' = FALSE
  /\ subs' = [subs EXCEPT ![i].phase = "failed"]
  /\ UNCHANGED <<inputValue, files, messages, now, deliveries, streamVars>>

\* The callback handed to streamQuery: switch (eventType).  The result is the
\* closure, the messages and the busy flag after the call.
OnEvent(sub, ms, loading, ev) ==
  LET data == ev.data
      same == [sub |-> sub, messages |-> ms, isLoading |-> loading]
  IN CASE ev.event = "thinking" ->
            IF data.obj /\ data.text # << >>
              THEN LET r == AppendText(sub.agentResponse, data.text)
                   IN [sub |-> [sub EXCEPT !.agentResponse = r],
                       messages |-> MapMessages(ms, sub.assistantId, LAMBDA m : WithText(m, r)),
                       isLoading |-> loading]
              ELSE same
       [] ev.event = "sql" ->
            IF data.obj
              THEN [sub |-> [sub EXCEPT !.sqlQuery = data.sql],
                    messages |-> MapMessages(ms, sub.assistantId,
                       LAMBDA m : [m EXCEPT !.queryResult = [@ EXCEPT !.present = TRUE, !.sql = data.sql]]),
                    isLoading |-> loading]
              ELSE same
       [] ev.event = "result" ->
            IF data.obj /\ data.preview # None
              THEN [sub |-> [sub EXCEPT !.queryResultData = data.preview[1]],
                    messages |-> MapMessages(ms, sub.assistantId,
                       LAMBDA m : [m EXCEPT !.queryResult = [@ EXCEPT !.present = TRUE, !.data = data.preview[1]]]),
                    isLoading |-> loading]
              ELSE same
       [] ev.event = "response" ->
            IF data.obj /\ data.response # << >>
              THEN [sub |-> [sub EXCEPT !.agentResponse = data.response],
                    messages |-> MapMessages(ms, sub.assistantId, LAMBDA m : WithText(m, data.response)),
                    isLoading |-> loading]
              ELSE same
       [] ev.event = "done" ->
            LET r == DoneText(sub.agentResponse)
            IN [sub |-> sub,
                messages |-> MapMessages(ms, sub.assistantId,
                   LAMBDA m : [m EXCEPT !.content = r,
                                        !.queryResult = [present |-> TRUE, response |-> r,
                                                         data |-> sub.queryResultData,
                                                         sql |-> sub.sqlQuery]]),
                isLoading |-> FALSE]
       [] ev.event = "error" ->
            LET errorMsg == OrElse(data.error, UNKNOWN_ERROR)
            IN [sub |-> sub,
                messages |-> MapMessages(ms, sub.assistantId,
                   LAMBDA m : [m EXCEPT !.content = <<ERROR_PREFIX>> \o errorMsg,
                                        !.sender = "error"]),
                isLoading |-> FALSE]
       [] OTHER -> same

\* streamQuery calls the callback with an event decoded from the stream.
Deliver(i, ev) ==
  /\ subs[i].phase = "stream"
  /\ deliveries < MaxDeliveries
  /\ LET r == OnEvent(subs[i], messages, isLoading, ev)
     IN /\ subs' = [subs EXCEPT ![i] = r.sub]
        /\ messages' = r.messages
        /\ isLoading' = r.isLoading
  /\ deliveries' = deliveries + 1
  /\ UNCHANGED <<inputValue, files, now, streamVars>>

\* streamQuery reports a failure of its own and stops.
StreamFail(i, ev) ==
  /\ subs[i].phase = "stream"
  /\ deliveries < MaxDeliveries
  /\ LET r == OnEvent(subs[i], messages, isLoading, ev)
     IN /\ subs' = [subs EXCEPT ![i] = [r.sub EXCEPT !.phase = "ended"]]
        /\ messages' = r.messages
        /\ isLoading' = r.isLoading
  /\ deliveries' = deliveries + 1
  /\ UNCHANGED <<inputValue, files, now, streamVars>>

\* The reader reports done: streamQuery stops without a call.
StreamEnd(i) ==
  /\ subs[i].phase = "stream"
  /\ subs' = [subs EXCEPT ![i].phase = "ended"]
  /\ UNCHANGED <<inputValue, files, isLoading, messages, now, deliveries, streamVars>>

AppNext ==
  \/ \E v \in Inputs : SetInputValue(v)
  \/ \E n \in 0..MaxFiles : SetFiles(n)
  \/ \E t \in Times : HandleSubmit(t)
  \/ HandleSubmitIgnored
  \/ \E i \in 1..Len(subs), t \in Times : UploadDone(i, t)
  \/ \E i \in 1..Len(subs) : UploadFail(i)
  \/ \E i \in 1..Len(subs), ev \in AppEvents : Deliver(i, ev)
  \/ \E i \in 1..Len(subs), ev \in FatalEvents : StreamFail(i, ev)
  \/ \E i \in 1..Len(subs) : StreamEnd(i)

\* ------------------------------------------------------- specifications

\* No stream of the stand-alone streamQuery model.
StreamIdle ==
  /\ body = << >> /\ pos = 0 /\ buffer = << >> /\ eventCount = 0
  /\ events = << >> /\ origin = << >> /\ msgCount = 0 /\ resumed = FALSE
  /\ fetched = Pending /\ pc = "idle" /\ aborted = FALSE

\* streamQuery alone: one call, any body, any chunking, with cancellation.
Init == StreamInit /\ AppInit

Next == StreamNext

Spec == Init /\ [][Next]_vars

\* App: the user, the uploads and the streams of its submissions.
InitApp == AppInit /\ StreamIdle

NextApp == AppNext

SpecApp == InitApp /\ [][NextApp]_vars

\* ------------------------------------------------- claims on streamQuery

\* The text read so far, its messages (each ended by a blank line) and the
\* calls of onEvent made for them.
ReadText == SubSeq(body, 1, pos)
StreamMessages == Front(Split(ReadText, <<NL, NL>>))
CallsFor(k) == { i \in DOMAIN origin : origin[i] = k }
MessageCalls == SubSeq(events, 1, Len(origin))
ParseFailure == ErrorEvent(<<"Failed to parse SSE data">>)

\* The lines of a message that start with a prefix, and the trimmed value of
\* the last of them (<< >> when there is none).
FieldLines(m, prefix) == SelectSeq(Split(m, <<NL>>), LAMBDA l : StartsWith(l, prefix))
LastValue(m, prefix) ==
  IF FieldLines(m, prefix) = << >> THEN << >>
  ELSE Trim(SliceToken(Last(FieldLines(m, prefix))))
LastPayload(m) == LastValue(m, DATA_PREFIX)
EventName(m) ==
  IF FieldLines(m, EVENT_PREFIX) = << >> THEN <<"message">> ELSE LastValue(m, EVENT_PREFIX)

\* Some "data: " line of the message has a non-empty payload.
SomePayload(m) ==
  \E i \in DOMAIN FieldLines(m, DATA_PREFIX) :
     Trim(SliceToken(FieldLines(m, DATA_PREFIX)[i])) # << >>

\* C1: whatever the chunking, the text after the last blank line stays in the
\* buffer, every call is made for a message of the stream, and a message with
\* a payload is delivered exactly once (a message without one, never).
C1_RetainedDeliveredOnce ==
  /\ buffer = Last(Split(ReadText, <<NL, NL>>))
  /\ \A i \in DOMAIN origin : origin[i] \in 1..Len(StreamMessages)
  /\ \A k \in 1..Len(StreamMessages) :
       Cardinality(CallsFor(k)) = IF LastPayload(StreamMessages[k]) # << >> THEN 1 ELSE 0

\* A message held in the buffer was delivered by a later read, and the start
\* of the next message is held now.
C1_Witness == resumed /\ Len(origin) = 1 /\ LastPayload(buffer) # << >>

\* C2: the calls are made in the order of the messages: a later call belongs
\* to a later message of the stream, and each call is the one its message makes.
C2_FifoOrder ==
  /\ \A i, j \in DOMAIN origin : i < j => origin[i] < origin[j]
  /\ \A i \in DOMAIN origin :
       /\ origin[i] \in 1..Len(StreamMessages)
       /\ <<events[i]>> = ProcessMessage(StreamMessages[origin[i]])

\* Two different events were delivered, one of them for a message that was
\* completed by a later read.
C2_Witness == resumed /\ Len(origin) = 2 /\ events[1] # events[2]

\* C3: a message whose payload does not parse makes exactly one call, the
\* 'error' event 'Failed to parse SSE data', and every later message with a
\* payload is still delivered.
C3_ParseFailureReported ==
  \A k \in 1..Len(StreamMessages) :
    LET p == LastPayload(StreamMessages[k])
    IN (p # << >> /\ ~JSONValid(p)) =>
         /\ Cardinality(CallsFor(k)) = 1
         /\ \A i \in CallsFor(k) : events[i] = ParseFailure
         /\ \A k2 \in (k + 1)..Len(StreamMessages) :
              LastPayload(StreamMessages[k2]) # << >> => CallsFor(k2) # {}

\* A parse failure was reported and a later message was delivered as parsed.
C3_Witness ==
  \E i, j \in DOMAIN origin :
    i < j /\ events[i] = ParseFailure /\ events[j] # ParseFailure

\* C4: once the cancel function has been called, nothing more is read and the
\* callback is not called again, not even with an 'error' event.
C4_CancelSilent ==
  [][aborted => (events' = events /\ pos' = pos /\ buffer' = buffer)]_vars

\* The stream was cancelled while a read was pending in the middle of a
\* message, and the AbortError was caught.
C4_Witness == pc = "cancelled" /\ pos > 0 /\ buffer # << >> /\ events # << >>

\* The calls the messages of a text make, in order.
RECURSIVE Decoded(_)
Decoded(ms) ==
  IF ms = << >> THEN << >> ELSE ProcessMessage(Head(ms)) \o Decoded(Tail(ms))

\* C5: after the reader has reported done, the calls made are exactly those
\* decoded from the messages of the stream: no terminal event is added.
C5_NoTerminalEvent == pc = "done" => events = Decoded(StreamMessages)

\* The stream ended after two events were delivered.
C5_Witness == pc = "done" /\ Len(events) = 2

\* C6 as stated: every message with a "data: " line that has a payload makes
\* exactly one call, and a message without such a line makes none.
C6_OneCallPerDataLine ==
  \A k \in 1..Len(StreamMessages) :
    Cardinality(CallsFor(k)) = IF SomePayload(StreamMessages[k]) THEN 1 ELSE 0

\* C6 as amended: a message makes a call exactly if its last "data: " line has
\* a payload; the call carries the trimmed value of the last "event: " line
\* (or 'message') and the decoded payload, or is the parse failure event when
\* the payload does not parse.
C6_LastDataLineDecides ==
  \A k \in 1..Len(StreamMessages) :
    LET m == StreamMessages[k]
        p == LastPayload(m)
    IN IF p = << >> THEN CallsFor(k) = {}
       ELSE /\ Cardinality(CallsFor(k)) = 1
            /\ \A i \in CallsFor(k) :
                 events[i] = IF JSONValid(p)
                               THEN [event |-> EventName(m), data |-> JSONParse(p)]
                               ELSE ParseFailure

\* A message with an event line and a payload was delivered under its name.
C6_Witness ==
  \E i \in DOMAIN origin : events[i] = [event |-> <<"a">>, data |-> [num |-> 1]]

\* C7: the calls made and the text left in the buffer are those of reading
\* the same text in one chunk, and those of reading it token by token.
C7_ChunkingInvariant ==
  LET whole == RunChunks(LoopStart, <<ReadText>>)
      single == RunChunks(LoopStart, [i \in 1..pos |-> <<ReadText[i]>>])
  IN /\ MessageCalls = whole.events
     /\ MessageCalls = single.events
     /\ buffer = whole.buffer
     /\ buffer = single.buffer

\* The whole body was read in more than one chunk, with a message completed
\* by a later read.
C7_Witness == resumed /\ pos = Len(body) /\ pc = "read" /\ Len(origin) >= 1

\* C8: when the stream has ended, as many calls were made as there are
\* terminated messages with a payload: the text left in the buffer made none.
C8_TailDiscarded ==
  pc = "done" =>
    /\ Len(events) = Len(origin)
    /\ Len(events) =
         Cardinality({ k \in 1..Len(StreamMessages) : LastPayload(StreamMessages[k]) # << >> })

\* The stream ended while the buffer held a message with a payload and no
\* blank line after it.
C8_Witness == pc = "done" /\ LastPayload(buffer) # << >>

\* C9: a response that is not ok, a response without a body and a rejected
\* fetch each end the call with exactly one 'error' event, carrying 'HTTP
\* <status>', 'No response body' or the error's message, and nothing is read.
C9_FetchFailureReported ==
  /\ (fetched.settled = "resolved" /\ ~Ok(fetched.status)) =>
       pc = "failed" /\ pos = 0 /\ events = <<ErrorEvent(<<"HTTP ", fetched.status>>)>>
  /\ (fetched.settled = "resolved" /\ Ok(fetched.status) /\ ~fetched.hasBody) =>
       pc = "failed" /\ pos = 0 /\ events = <<ErrorEvent(<<"No response body">>)>>
  /\ (fetched.settled = "rejected" /\ fetched.error.name # "AbortError") =>
       pc = "failed" /\ pos = 0 /\ events = <<ErrorEvent(fetched.error.message)>>

\* The server answered 500 and the failure was reported.
C9_Witness == fetched.settled = "resolved" /\ fetched.status = "500" /\ pc = "failed"

\* ---------------------------------------------------------- claims on App

\* C10: at most one stream of App can deliver events at any time.
C10_OneLiveStream ==
  Cardinality({ i \in DOMAIN subs : subs[i].phase = "stream" }) <= 1

\* C11: every accepted submission clears the busy state in the end: once every
\* submission is over (its upload failed, or its stream terminated with 'done',
\* with 'error' or by the connection ending), isLoading is false.
C11_BusyClearedAtEnd ==
  (subs # << >> /\ \A i \in DOMAIN subs : subs[i].phase \in {"ended", "failed"})
    => ~isLoading

\* C12: a submission made while isLoading is true, or with an empty trimmed input
\* and no file, starts nothing (no user message, no upload, no stream); an accepted
\* submission sends the trimmed input, or the default query text when the trimmed
\* input is empty (then a file is attached).
C12_SubmissionGuard ==
  [][LET trimmed == Trim(inputValue)
         started == Len(subs') > Len(subs)
         userAppended == \E k \in (Len(messages) + 1)..Len(messages') :
                            messages'[k].sender = "user"
     IN /\ (isLoading \/ (trimmed = << >> /\ files = 0)) => ~started /\ ~userAppended
        /\ started =>
             /\ userAppended
             /\ subs'[Len(subs')].nfiles = files
             /\ subs'[Len(subs')].query =
                  (IF trimmed = << >> THEN DEFAULT_QUERY ELSE trimmed)]_vars

\* A submission with a file and no text was accepted with the default query, and
\* the input typed while it is busy cannot be submitted.
C12_Witness ==
  /\ \E i \in DOMAIN subs : subs[i].nfiles > 0 /\ subs[i].query = DEFAULT_QUERY
  /\ isLoading
  /\ inputValue = <<"q">>

\* The events a stream can hand to the callback.
StreamEvents == AppEvents \cup FatalEvents

\* The positions of the messages that the step changes.
Changed == { k \in DOMAIN messages : k \in DOMAIN messages' /\ messages'[k] # messages[k] }

\* C13: a stream event never adds, removes or reorders messages and modifies at
\* most the assistant placeholder of its own submission (the message whose id is
\* assistantId): every user message and every message of another submission is
\* left as it was.
C13_OnlyOwnPlaceholder ==
  [][\A i \in DOMAIN subs, ev \in StreamEvents :
       (Deliver(i, ev) \/ StreamFail(i, ev)) =>
         /\ Len(messages') = Len(messages)
         /\ \A k \in DOMAIN messages : messages'[k].id = messages[k].id
         /\ \A k \in Changed : /\ messages[k].id = subs[i].assistantId
                                /\ messages[k].sender # "user"
         /\ Cardinality(Changed) <= 1]_vars

\* The positions of the messages that carry the id of submission i's placeholder.
Own(i) == { k \in DOMAIN messages : messages[k].id = subs[i].assistantId }

\* C14: the content of the assistant message is the streamed text.  The text
\* accumulated by a stream is empty when the stream starts; a 'thinking' event
\* with a text appends it to the accumulated text and a 'response' event with a
\* response replaces the accumulated text, and the content becomes the
\* accumulated text; a 'thinking' or 'response' event with an empty or missing
\* text changes neither, and no other event changes the accumulated text.
C14_ContentTracksText ==
  [][/\ Len(subs') > Len(subs) => subs'[Len(subs')].agentResponse = << >>
     /\ \A i \in DOMAIN subs, ev \in StreamEvents :
          (Deliver(i, ev) \/ StreamFail(i, ev)) =>
            LET acc == subs[i].agentResponse
                text == IF ev.event = "thinking" THEN ev.data.text ELSE ev.data.response
            IN IF ev.event \in {"thinking", "response"}
                 THEN IF text = << >>
                        THEN messages' = messages /\ subs'[i].agentResponse = acc
                        ELSE LET r == IF ev.event = "thinking" THEN acc \o text ELSE text
                             IN /\ subs'[i].agentResponse = r
                                /\ Own(i) # {}
                                /\ \A k \in Own(i) : messages'[k].content = r
                 ELSE subs'[i].agentResponse = acc]_vars

\* Two 'thinking' events with the texts "a" and "b", in this order, made the
\* content "ab".
C14_Witness ==
  \E i \in DOMAIN subs :
    /\ subs[i].agentResponse = <<"a", "b">>
    /\ \E k \in Own(i) : messages[k].content = <<"a", "b">> /\ messages[k].sender = "assistant"

\* What a step of App does for 'done': a new stream has received no SQL and no
\* preview; the SQL of a stream is replaced by sqlAfter(old, event) and its preview
\* by the preview of a 'result' event that has one; a 'done' event clears
\* isLoading and sets the content and queryResult.response of the assistant
\* message to the accumulated text, or to the completion text when there is none,
\* and its queryResult.data and queryResult.sql to the stream's preview and SQL.
DoneStep(sqlAfter(_, _)) ==
  /\ Len(subs') > Len(subs) =>
       /\ subs'[Len(subs')].sqlQuery = None
       /\ subs'[Len(subs')].queryResultData = << >>
  /\ \A i \in DOMAIN subs, ev \in StreamEvents :
       (Deliver(i, ev) \/ StreamFail(i, ev)) =>
         /\ subs'[i].sqlQuery = sqlAfter(subs[i].sqlQuery, ev)
         /\ subs'[i].queryResultData =
              (IF ev.event = "result" /\ ev.data.preview # None
                 THEN ev.data.preview[1] ELSE subs[i].queryResultData)
         /\ ev.event = "done" =>
              /\ ~isLoading'
              /\ Own(i) # {}
              /\ \A k \in Own(i) :
                   LET m == messages'[k]
                   IN /\ m.content # << >>
                      /\ m.content = (IF subs[i].agentResponse # << >>
                                        THEN subs[i].agentResponse ELSE DONE_TEXT)
                      /\ m.queryResult.response = m.content
                      /\ m.queryResult.data = subs[i].queryResultData
                      /\ m.queryResult.sql = subs[i].sqlQuery

C16_ErrorIsFinal ==
  [][\A i \in DOMAIN subs, ev \in StreamEvents :
       (Deliver(i, ev) \/ StreamFail(i, ev)) =>
         /\ ev.event = "error" =>
              /\ ~isLoading'
              /\ Own(i) # {}
              /\ \A k \in Own(i) :
                   /\ messages'[k].sender = "error"
                   /\ messages'[k].content =
                        <<ERROR_PREFIX>> \o (IF ev.data.error # << >>
                                               THEN ev.data.error ELSE UNKNOWN_ERROR)
         /\ \A k \in Own(i) :
              messages[k].sender = "error" =>
                /\ messages'[k].content = messages[k].content
                /\ messages'[k].sender = messages[k].sender]_vars

\* C17: the files are uploaded before the stream is opened: a submission with
\* files has no placeholder and no stream while it uploads.  When the upload
\* fails the submission stops: the step appends no placeholder and changes no
\* message (the user message stays), it sets isLoading to false, and the
\* submission never gets a stream afterwards.
C17_UploadFailureStops ==
  [][/\ Len(subs') > Len(subs) =>
          LET new == subs'[Len(subs')]
          IN new.phase = (IF new.nfiles > 0 THEN "upload" ELSE "stream")
     /\ \A i \in DOMAIN subs :
          /\ subs[i].phase = "upload" =>
               /\ Own(i) = {}
               /\ Len(messages) >= 1
          /\ UploadFail(i) =>
               /\ ~isLoading'
               /\ messages' = messages
               /\ subs'[i].phase = "failed"
          /\ subs[i].phase = "failed" => subs'[i] = subs[i]
          /\ (subs[i].phase # "stream" /\ subs'[i].phase = "stream") =>
               subs[i].phase = "upload"]_vars

\* An upload failed: the user message is the only message, there is no
\* placeholder, and the input is enabled again.
C17_Witness ==
  /\ Len(subs) = 1
  /\ subs[1].phase = "failed"
  /\ subs[1].nfiles > 0
  /\ Len(messages) = 1
  /\ messages[1].sender = "user"
  /\ ~isLoading

=============================================================================
